---- MODULE Spec2Model ----
(***************************************************************************)
(* The amortization engine of loan-planner (src/src/utils/loan.ts):        *)
(* amortize, calculateLoan, summarizeLoan, monthsToYearsMonths; the        *)
(* planner that keeps a history of scenarios                               *)
(* (src/src/components/LoanPlanner.tsx); and the hook that keeps the       *)
(* planner's state in localStorage (src/src/hooks/usePersistentState.ts).  *)
(*                                                                         *)
(* A JavaScript number is modelled as an exact rational <<n, d>> in lowest *)
(* terms with d > 0, +Infinity as <<1, 0>>, -Infinity as <<-1, 0>> and NaN *)
(* as <<0, 0>>.  Every arithmetic step of the source is carried out on     *)
(* these values in the order the source carries it out; the rounding of    *)
(* IEEE doubles, their overflow to an infinity and the sign of zero are    *)
(* not modelled.                                                           *)
(***************************************************************************)
EXTENDS Integers, Sequences, FiniteSets, TLC

VARIABLES
    call,     \* the function called: "calculateLoan" | "amortize" |
              \* "monthsToYearsMonths"; or "LoanPlanner", the component
    inputs,   \* <<in>>: calculateLoan's parameter, a LoanInputs; <<>> otherwise
    args,     \* <<a>>: amortize's parameters, or monthsToYearsMonths' months;
              \* <<>> for calculateLoan
    pc,       \* "ready": the call is about to be made; "done": it has returned
    trace,    \* <<>> or <<t>>: calculateLoan's locals when it returned, with
              \* the summaries that its runs of amortize returned to it
    frames,   \* amortize's locals (but the schedule) at the end of each of
              \* its runs, in order
    ret,      \* <<>> or <<r>>: the AmortizationCalculation amortize returned,
              \* or the {years, months} monthsToYearsMonths returned
    result,   \* <<>> or <<c>>: the LoanComputation calculateLoan returned
    summary,  \* <<>> or <<s>>: the LoanSummary summarizeLoan returned for c
    hydrated,       \* the planner's allHydrated
    plannerInputs,  \* the planner's inputs, a LoanInputs
    settings,       \* the planner's settings, a LoanSettings
    history,        \* the planner's history, newest item first
    snapshotTimer,  \* snapshotTimer.current: a timer's id, or NoTimer
    timers,         \* the timers of window.setTimeout that are pending
    storage,        \* localStorage: for each key <<>>, or <<v>> for the
                    \* item under it
    lastSynced,     \* for each store, whether lastSyncedValueRef.current is
                    \* the store's state
    issued,         \* the number of history items created so far
    lastEvent,      \* the planner's last step: "mount", or the handler or
                    \* callback that ran last
    hook            \* <<>>, or a use of usePersistentState on its own

callVars == <<call, inputs, args, pc, trace, frames, ret, result, summary>>
plannerVars == <<hydrated, plannerInputs, settings, history, snapshotTimer, timers, storage, lastSynced, issued, lastEvent>>
vars == <<call, inputs, args, pc, trace, frames, ret, result, summary, hydrated, plannerInputs, settings, history, snapshotTimer, timers, storage, lastSynced, issued, lastEvent, hook>>

(***************************************************************************)
(* Numbers                                                                 *)
(***************************************************************************)
Abs(i) == IF i < 0 THEN -i ELSE i

RECURSIVE GCD(_, _)
GCD(a, b) == IF b = 0 THEN a ELSE GCD(b, a % b)

\* The rational n/d (d # 0) in lowest terms with a positive denominator.
Norm(n, d) ==
    LET g == GCD(Abs(n), Abs(d))
        s == IF d < 0 THEN -1 ELSE 1
    IN  <<s * (n \div g), s * (d \div g)>>

Whole(i) == <<i, 1>>
Zero == <<0, 1>>
Infinity == <<1, 0>>
NegInfinity == <<-1, 0>>
NaN == <<0, 0>>

\* Number.isFinite
IsFinite(x) == x[2] # 0

\* Number.isNaN
IsNaN(x) == x = NaN

\* 1, 0 or -1 as x is above, at or below zero (0 for NaN).
Sign(x) == IF x[1] > 0 THEN 1 ELSE IF x[1] < 0 THEN -1 ELSE 0

\* x + y
Add(x, y) ==
    IF IsNaN(x) \/ IsNaN(y) THEN NaN
    ELSE IF ~IsFinite(x) THEN (IF ~IsFinite(y) /\ y # x THEN NaN ELSE x)
    ELSE IF ~IsFinite(y) THEN y
    ELSE LET g == GCD(x[2], y[2])
         IN  Norm(x[1] * (y[2] \div g) + y[1] * (x[2] \div g), x[2] * (y[2] \div g))

Neg(x) == <<-x[1], x[2]>>

\* x - y
Sub(x, y) == Add(x, Neg(y))

\* x * y
Mul(x, y) ==
    IF IsNaN(x) \/ IsNaN(y) THEN NaN
    ELSE IF ~IsFinite(x) \/ ~IsFinite(y)
    THEN (IF Sign(x) * Sign(y) = 0 THEN NaN ELSE <<Sign(x) * Sign(y), 0>>)
    ELSE LET g1 == GCD(Abs(x[1]), y[2])
             g2 == GCD(Abs(y[1]), x[2])
         IN  Norm((x[1] \div g1) * (y[1] \div g2), (x[2] \div g2) * (y[2] \div g1))

\* x / y (a zero divisor is +0: the source never divides by a negative zero)
Div(x, y) ==
    IF IsNaN(x) \/ IsNaN(y) THEN NaN
    ELSE IF ~IsFinite(y) THEN (IF ~IsFinite(x) THEN NaN ELSE Zero)
    ELSE IF y = Zero THEN (IF Sign(x) = 0 THEN NaN ELSE <<Sign(x), 0>>)
    ELSE Mul(x, Norm(y[2], y[1]))

\* Math.floor of a finite x, as an integer
Floor(x) == x[1] \div x[2]

\* a/b < c/d for 0 <= a < b and 0 <= c < d, by the continued fractions of
\* the two (no product is formed, so no operand leaves the integer range).
RECURSIVE FracLt(_, _, _, _)
FracLt(a, b, c, d) ==
    IF c = 0 THEN FALSE
    ELSE IF a = 0 THEN TRUE
    ELSE LET q1 == b \div a
             q2 == d \div c
         IN  IF q1 # q2 THEN q1 > q2
             ELSE FracLt(d % c, c, b % a, a)

\* x < y (false when either is NaN)
Lt(x, y) ==
    IF IsNaN(x) \/ IsNaN(y) \/ x = y THEN FALSE
    ELSE IF ~IsFinite(x) THEN x = NegInfinity
    ELSE IF ~IsFinite(y) THEN y = Infinity
    ELSE IF Floor(x) # Floor(y) THEN Floor(x) < Floor(y)
    ELSE FracLt(x[1] % x[2], x[2], y[1] % y[2], y[2])

\* x <= y (false when either is NaN)
Le(x, y) == ~IsNaN(x) /\ ~IsNaN(y) /\ ~Lt(y, x)

\* Math.max, Math.min (NaN when either is NaN)
MathMax(x, y) == IF IsNaN(x) \/ IsNaN(y) THEN NaN ELSE IF Lt(x, y) THEN y ELSE x
MathMin(x, y) == IF IsNaN(x) \/ IsNaN(y) THEN NaN ELSE IF Lt(y, x) THEN y ELSE x

\* Math.round: the nearest integer, a tie going up; x itself when not finite.
MathRound(x) == IF IsFinite(x) THEN Whole(Floor(Add(x, <<1, 2>>))) ELSE x

\* x ** k for k a whole number >= 0, +Infinity or NaN
RECURSIVE Pow(_, _)
Pow(x, k) ==
    IF IsNaN(k) THEN NaN
    ELSE IF k = Zero THEN Whole(1)
    ELSE IF IsNaN(x) THEN NaN
    ELSE IF k = Infinity
    THEN (IF Lt(Whole(1), x) \/ Lt(x, Whole(-1)) THEN Infinity
          ELSE IF x = Whole(1) \/ x = Whole(-1) THEN NaN
          ELSE Zero)
    ELSE Mul(x, Pow(x, Sub(k, Whole(1))))

(***************************************************************************)
(* Constants of loan.ts                                                    *)
(***************************************************************************)
MAX_MONTHS == 1000 * 12
EPSILON == <<1, 1000000>>

(***************************************************************************)
(* amortize (lines 73-168)                                                 *)
(***************************************************************************)
\* The result returned at lines 80-87.
ZeroResult ==
    [summary |-> [payoffMonths |-> Zero, totalInterest |-> Zero, totalPayment |-> Zero],
     schedule |-> <<>>]

\* The result returned at lines 92-99, 118-125 and 150-157.
NonConvergent ==
    [summary |-> [payoffMonths |-> Infinity, totalInterest |-> Infinity,
                  totalPayment |-> Infinity],
     schedule |-> <<>>]

\* EffectivePayment taking the extra payment off the scheduled one.
EffectivePaymentMinus(scheduledPayment, extraPayment) ==
    Sub(scheduledPayment, MathMax(Zero, extraPayment))

\* EffectivePayment with the extra payment in the place of the scheduled one.
EffectivePaymentExtraOnly(scheduledPayment, extraPayment) ==
    IF Lt(Zero, extraPayment) THEN extraPayment ELSE scheduledPayment

\* line 90
EffectivePayment(scheduledPayment, extraPayment) ==
    Add(scheduledPayment, MathMax(Zero, extraPayment))

\* LoopCond without the ceiling on the number of periods.
LoopCondNoCeiling(balance, payoffMonths) == Lt(EPSILON, balance)

\* LoopCond comparing the balance with 1 instead of EPSILON.
LoopCondCoarse(balance, payoffMonths) ==
    Lt(Whole(1), balance) /\ payoffMonths < MAX_MONTHS

\* line 108: the loop's condition
LoopCond(balance, payoffMonths) ==
    Lt(EPSILON, balance) /\ payoffMonths < MAX_MONTHS

\* line 109
InterestOf(balance, monthlyRate) ==
    IF Lt(Zero, monthlyRate) THEN Mul(balance, monthlyRate) ELSE Zero

\* lines 112-115
PrincipalPortion(payment, interest, monthlyRate) ==
    IF monthlyRate = Zero THEN payment ELSE Sub(payment, interest)

\* CappedPrincipal without the cap.
CappedPrincipalUncapped(principalPayment, balance) == principalPayment

\* lines 128-130
CappedPrincipal(principalPayment, balance) ==
    IF Lt(balance, principalPayment) THEN balance ELSE principalPayment

\* SchedulePoint recording the period's interest as the interest paid so far.
SchedulePointPeriodInterest(principal, payoffMonths, actualPayment, principalPayment, interest, balance, totalInterest) ==
    [monthIndex |-> payoffMonths,
     yearIndex |-> ((payoffMonths - 1) \div 12) + 1,
     payment |-> actualPayment,
     principalPayment |-> principalPayment,
     interestPayment |-> interest,
     balance |-> MathMax(balance, Zero),
     totalPrincipalPaid |-> Sub(principal, MathMax(balance, Zero)),
     totalInterestPaid |-> interest]

\* SchedulePoint recording the principal portion as the payment.
SchedulePointNoInterest(principal, payoffMonths, actualPayment, principalPayment, interest, balance, totalInterest) ==
    [monthIndex |-> payoffMonths,
     yearIndex |-> ((payoffMonths - 1) \div 12) + 1,
     payment |-> principalPayment,
     principalPayment |-> principalPayment,
     interestPayment |-> interest,
     balance |-> MathMax(balance, Zero),
     totalPrincipalPaid |-> Sub(principal, MathMax(balance, Zero)),
     totalInterestPaid |-> totalInterest]

\* lines 137-146: the point pushed for period payoffMonths, balance being the
\* balance after the period.
SchedulePoint(principal, payoffMonths, actualPayment, principalPayment, interest, balance, totalInterest) ==
    [monthIndex |-> payoffMonths,
     yearIndex |-> ((payoffMonths - 1) \div 12) + 1,
     payment |-> actualPayment,
     principalPayment |-> principalPayment,
     interestPayment |-> interest,
     balance |-> MathMax(balance, Zero),
     totalPrincipalPaid |-> Sub(principal, MathMax(balance, Zero)),
     totalInterestPaid |-> totalInterest]

\* amortize's locals before its first statement; exit names the place where
\* the run ended ("running" until then).
NoFrame ==
    [payment |-> Zero, balance |-> Zero, payoffMonths |-> 0,
     totalInterest |-> Zero, totalPayment |-> Zero, schedule |-> <<>>,
     exit |-> "running"]

\* lines 102-106: the locals when the loop is entered.
LoopEntry(principal, payment) ==
    [NoFrame EXCEPT !.payment = payment, !.balance = principal]

\* lines 109-146: one iteration of the loop from the locals f.
LoopBody(principal, monthlyRate, f) ==
    LET interest == InterestOf(f.balance, monthlyRate)
        totalInterest == Add(f.totalInterest, interest)
        portion == PrincipalPortion(f.payment, interest, monthlyRate)
        principalPayment == CappedPrincipal(portion, f.balance)
        actualPayment == Add(principalPayment, interest)
        balance == Sub(f.balance, principalPayment)
        payoffMonths == f.payoffMonths + 1
    IN  IF Le(portion, Zero)
        THEN [f EXCEPT !.totalInterest = totalInterest, !.exit = "portion"]
        ELSE [f EXCEPT
                !.balance = balance,
                !.payoffMonths = payoffMonths,
                !.totalInterest = totalInterest,
                !.totalPayment = Add(f.totalPayment, actualPayment),
                !.schedule = Append(f.schedule,
                    SchedulePoint(principal, payoffMonths, actualPayment,
                                  principalPayment, interest, balance,
                                  totalInterest))]

\* lines 108-147: the loop, run from the locals f for at most n iterations
\* (the n iterations are split in two halves, which keeps the evaluation
\* shallow; the iterations themselves are carried out one by one, in order).
RECURSIVE RunLoop(_, _, _, _)
RunLoop(principal, monthlyRate, f, n) ==
    IF n = 0 \/ f.exit # "running" \/ ~LoopCond(f.balance, f.payoffMonths) THEN f
    ELSE IF n = 1 THEN LoopBody(principal, monthlyRate, f)
    ELSE RunLoop(principal, monthlyRate,
                 RunLoop(principal, monthlyRate, f, n \div 2), n - (n \div 2))

\* The number of iterations after which the model gives a loop up: above
\* MAX_MONTHS, so that the code's own ceiling is what ends every run.
LoopFuel == MAX_MONTHS + 2

\* AmortizeRun without the early return for principal <= 0 (lines 79-88).
AmortizeRunNoZeroCase(principal, monthlyRate, scheduledPayment, extraPayment) ==
    LET payment == EffectivePayment(scheduledPayment, extraPayment)
    IN  IF Le(payment, Zero)
        THEN [NoFrame EXCEPT !.payment = payment, !.exit = "payment"]
        ELSE LET f == RunLoop(principal, monthlyRate,
                              LoopEntry(principal, payment), LoopFuel)
             IN  IF f.exit # "running" THEN f
                 ELSE IF LoopCond(f.balance, f.payoffMonths)
                 THEN [f EXCEPT !.exit = "fuel"]
                 ELSE [f EXCEPT !.exit = "loop"]

\* AmortizeRun returning early for principal < 0 only.
AmortizeRunZeroNotEarly(principal, monthlyRate, scheduledPayment, extraPayment) ==
    LET payment == EffectivePayment(scheduledPayment, extraPayment)
    IN  IF Lt(principal, Zero) THEN [NoFrame EXCEPT !.exit = "principal"]
        ELSE IF Le(payment, Zero)
        THEN [NoFrame EXCEPT !.payment = payment, !.exit = "payment"]
        ELSE LET f == RunLoop(principal, monthlyRate,
                              LoopEntry(principal, payment), LoopFuel)
             IN  IF f.exit # "running" THEN f
                 ELSE IF LoopCond(f.balance, f.payoffMonths)
                 THEN [f EXCEPT !.exit = "fuel"]
                 ELSE [f EXCEPT !.exit = "loop"]

\* lines 79-147: amortize's locals when it reaches a return; exit is
\*   "principal" (line 80), "payment" (line 92), "portion" (line 118),
\*   "loop" (the loop's condition is false, line 149),
\*   "fuel" (the loop was still running after LoopFuel iterations).
AmortizeRun(principal, monthlyRate, scheduledPayment, extraPayment) ==
    LET payment == EffectivePayment(scheduledPayment, extraPayment)
    IN  IF Le(principal, Zero) THEN [NoFrame EXCEPT !.exit = "principal"]
        ELSE IF Le(payment, Zero)
        THEN [NoFrame EXCEPT !.payment = payment, !.exit = "payment"]
        ELSE LET f == RunLoop(principal, monthlyRate,
                              LoopEntry(principal, payment), LoopFuel)
             IN  IF f.exit # "running" THEN f
                 ELSE IF LoopCond(f.balance, f.payoffMonths)
                 THEN [f EXCEPT !.exit = "fuel"]
                 ELSE [f EXCEPT !.exit = "loop"]

\* LoopResult testing payoffMonths > MAX_MONTHS.
LoopResultStrict(f) ==
    IF f.payoffMonths > MAX_MONTHS THEN NonConvergent
    ELSE [summary |-> [payoffMonths |-> Whole(f.payoffMonths),
                       totalInterest |-> f.totalInterest,
                       totalPayment |-> f.totalPayment],
          schedule |-> f.schedule]

\* LoopResult keeping the totals of the periods counted at the ceiling.
LoopResultKeepsTotals(f) ==
    IF f.payoffMonths >= MAX_MONTHS
    THEN [summary |-> [payoffMonths |-> Infinity,
                       totalInterest |-> f.totalInterest,
                       totalPayment |-> f.totalPayment],
          schedule |-> <<>>]
    ELSE [summary |-> [payoffMonths |-> Whole(f.payoffMonths),
                       totalInterest |-> f.totalInterest,
                       totalPayment |-> f.totalPayment],
          schedule |-> f.schedule]

\* lines 149-167: the value returned once the loop has ended.
LoopResult(f) ==
    IF f.payoffMonths >= MAX_MONTHS THEN NonConvergent
    ELSE [summary |-> [payoffMonths |-> Whole(f.payoffMonths),
                       totalInterest |-> f.totalInterest,
                       totalPayment |-> f.totalPayment],
          schedule |-> f.schedule]

\* AmortizeResult leaving the loop at line 117 instead of returning there.
AmortizeResultBreak(f) ==
    IF f.exit = "principal" THEN ZeroResult
    ELSE IF f.exit = "payment" THEN NonConvergent
    ELSE LoopResult(f)

\* The AmortizationCalculation returned from the locals f at the return.
AmortizeResult(f) ==
    IF f.exit = "principal" THEN ZeroResult
    ELSE IF f.exit \in {"payment", "portion"} THEN NonConvergent
    ELSE LoopResult(f)

Amortize(principal, monthlyRate, scheduledPayment, extraPayment) ==
    AmortizeResult(AmortizeRun(principal, monthlyRate, scheduledPayment, extraPayment))

(***************************************************************************)
(* calculateLoan (lines 170-239)                                           *)
(***************************************************************************)
\* line 171
ClampPurchasePrice(purchasePrice) == MathMax(Zero, purchasePrice)

\* ClampDownPayment without the ceiling at the purchase price.
ClampDownPaymentNoCeiling(downPayment, purchasePrice) == MathMax(Zero, downPayment)

\* line 172
ClampDownPayment(downPayment, purchasePrice) ==
    MathMin(MathMax(Zero, downPayment), purchasePrice)

\* line 173
ClampTermYears(termYears) == MathMax(termYears, <<1, 10>>)

\* line 175
Principal(purchasePrice, downPayment) ==
    MathMax(Sub(purchasePrice, downPayment), Zero)

\* line 176: the scheduled number of periods
Months(termYears) == MathMax(MathRound(Mul(termYears, Whole(12))), Whole(1))

\* MonthlyRate without the clamp at 0.
MonthlyRateUnclamped(annualInterestRate) ==
    Div(Div(annualInterestRate, Whole(100)), Whole(12))

\* line 177
MonthlyRate(annualInterestRate) ==
    Div(Div(MathMax(annualInterestRate, Zero), Whole(100)), Whole(12))

\* ScheduledPayment dividing the principal by the periods at every rate.
ScheduledPaymentLinear(principal, monthlyRate, months) ==
    IF Lt(Zero, principal) THEN Div(principal, months) ELSE Zero

\* lines 180-189
ScheduledPayment(principal, monthlyRate, months) ==
    IF Lt(Zero, principal)
    THEN IF monthlyRate = Zero
         THEN Div(principal, months)
         ELSE LET rateFactor == Pow(Add(Whole(1), monthlyRate), months)
              IN  Div(Mul(Mul(principal, monthlyRate), rateFactor),
                      Sub(rateFactor, Whole(1)))
    ELSE Zero

\* lines 171-189: the locals computed before the first call of amortize.
Locals(in) ==
    LET purchasePrice == ClampPurchasePrice(in.purchasePrice)
        downPayment == ClampDownPayment(in.downPayment, purchasePrice)
        termYears == ClampTermYears(in.termYears)
        principal == Principal(purchasePrice, downPayment)
        months == Months(termYears)
        monthlyRate == MonthlyRate(in.annualInterestRate)
    IN  [purchasePrice |-> purchasePrice,
         downPayment |-> downPayment,
         termYears |-> termYears,
         principal |-> principal,
         months |-> months,
         monthlyRate |-> monthlyRate,
         extraPayment |-> MathMax(in.extraMonthlyPayment, Zero),
         scheduledPayment |-> ScheduledPayment(principal, monthlyRate, months)]

\* lines 193-196: amortize is called a second time
RunsAccelerated(extraPayment) == Lt(Zero, extraPayment)

\* lines 198-204
BasePlan(scheduledPayment, b) ==
    [monthlyPayment |-> scheduledPayment,
     totalPayment |-> b.summary.totalPayment,
     totalInterest |-> b.summary.totalInterest,
     payoffMonths |-> b.summary.payoffMonths,
     schedule |-> b.schedule]

\* AcceleratedConverged without the test of Number.isFinite.
AcceleratedDefined(acc) == acc # <<>>

\* line 208: acc is <<>> (undefined) or <<r>>
AcceleratedConverged(acc) ==
    acc # <<>> /\ IsFinite(acc[1].summary.payoffMonths)

\* AcceleratedPlan taking the base plan's figures off the accelerated plan's.
AcceleratedPlanSwapped(l, b, acc) ==
    IF AcceleratedConverged(acc)
    THEN <<[monthlyPayment |-> l.scheduledPayment,
            monthlyPaymentWithExtra |-> Add(l.scheduledPayment, l.extraPayment),
            totalPayment |-> acc[1].summary.totalPayment,
            totalInterest |-> acc[1].summary.totalInterest,
            payoffMonths |-> acc[1].summary.payoffMonths,
            interestSaved |-> MathMax(Sub(acc[1].summary.totalInterest,
                                          b.summary.totalInterest), Zero),
            monthsSaved |-> MathMax(Sub(acc[1].summary.payoffMonths,
                                        b.summary.payoffMonths), Zero),
            schedule |-> acc[1].schedule]>>
    ELSE <<>>

\* lines 206-229: <<>> (undefined) or <<the accelerated plan>>
AcceleratedPlan(l, b, acc) ==
    IF AcceleratedConverged(acc)
    THEN <<[monthlyPayment |-> l.scheduledPayment,
            monthlyPaymentWithExtra |-> Add(l.scheduledPayment, l.extraPayment),
            totalPayment |-> acc[1].summary.totalPayment,
            totalInterest |-> acc[1].summary.totalInterest,
            payoffMonths |-> acc[1].summary.payoffMonths,
            interestSaved |-> MathMax(Sub(b.summary.totalInterest,
                                          acc[1].summary.totalInterest), Zero),
            monthsSaved |-> MathMax(Sub(b.summary.payoffMonths,
                                        acc[1].summary.payoffMonths), Zero),
            schedule |-> acc[1].schedule]>>
    ELSE <<>>

\* DownPaymentRatio dividing whatever the purchase price is.
DownPaymentRatioUnguarded(purchasePrice, downPayment) ==
    Div(downPayment, purchasePrice)

\* line 231
DownPaymentRatio(purchasePrice, downPayment) ==
    IF Lt(Zero, purchasePrice) THEN Div(downPayment, purchasePrice) ELSE Zero

\* lines 170-239: calculateLoan's locals when it returns, with the locals of
\* the runs of amortize it made (frames) and the value it returns (result).
CalculateLoanTrace(in) ==
    LET l == Locals(in)
        baseFrame == AmortizeRun(l.principal, l.monthlyRate, l.scheduledPayment, Zero)
        accFrame == AmortizeRun(l.principal, l.monthlyRate, l.scheduledPayment,
                                l.extraPayment)
        baseSchedule == AmortizeResult(baseFrame)
        acceleratedSchedule ==
            IF RunsAccelerated(l.extraPayment) THEN <<AmortizeResult(accFrame)>>
            ELSE <<>>
    IN  [loc |-> l,
         baseSchedule |-> baseSchedule,
         acceleratedSchedule |-> acceleratedSchedule,
         frames |-> IF RunsAccelerated(l.extraPayment) THEN <<baseFrame, accFrame>>
                    ELSE <<baseFrame>>,
         result |-> [principal |-> l.principal,
                     downPaymentRatio |-> DownPaymentRatio(l.purchasePrice,
                                                           l.downPayment),
                     base |-> BasePlan(l.scheduledPayment, baseSchedule),
                     accelerated |-> AcceleratedPlan(l, baseSchedule,
                                                     acceleratedSchedule)]]

CalculateLoan(in) == CalculateLoanTrace(in).result

\* lines 90, 102-105: amortize's locals other than the schedule it builds
\* (line 106), which leaves the run in the value returned or not at all.
ScalarLocals(f) ==
    [payment |-> f.payment, balance |-> f.balance,
     payoffMonths |-> f.payoffMonths, totalInterest |-> f.totalInterest,
     totalPayment |-> f.totalPayment, exit |-> f.exit]

(***************************************************************************)
(* The calls                                                               *)
(***************************************************************************)
\* calculateLoan(inputs) is called and returns.
CallCalculateLoan ==
    /\ pc = "ready"
    /\ call = "calculateLoan"
    /\ \E t \in {CalculateLoanTrace(inputs[1])} :
           /\ trace' = <<[loc |-> t.loc,
                         baseSummary |-> t.baseSchedule.summary,
                         acceleratedSummary |->
                             [i \in 1..Len(t.acceleratedSchedule) |->
                                 t.acceleratedSchedule[i].summary]]>>
           /\ frames' = [i \in 1..Len(t.frames) |-> ScalarLocals(t.frames[i])]
           /\ result' = <<t.result>>
    /\ pc' = "done"
    /\ UNCHANGED <<call, inputs, args, ret, summary>>
    /\ UNCHANGED <<plannerVars, hook>>

\* amortize(principal, monthlyRate, scheduledPayment, extraPayment) is called
\* and returns.
CallAmortize ==
    /\ pc = "ready"
    /\ call = "amortize"
    /\ \E f \in {AmortizeRun(args[1].principal, args[1].monthlyRate,
                              args[1].scheduledPayment, args[1].extraPayment)} :
           /\ frames' = <<ScalarLocals(f)>>
           /\ ret' = <<AmortizeResult(f)>>
    /\ pc' = "done"
    /\ UNCHANGED <<call, inputs, args, trace, result, summary>>
    /\ UNCHANGED <<plannerVars, hook>>

(***************************************************************************)
(* summarizeLoan (lines 241-261)                                           *)
(***************************************************************************)
\* SummarizeLoan copying the base plan whole, schedule included.
SummarizeLoanWholeBase(details) ==
    [principal |-> details.principal,
     downPaymentRatio |-> details.downPaymentRatio,
     base |-> details.base,
     accelerated |->
        IF details.accelerated # <<>>
        THEN <<[monthlyPayment |-> details.accelerated[1].monthlyPayment,
                monthlyPaymentWithExtra |->
                    details.accelerated[1].monthlyPaymentWithExtra,
                totalPayment |-> details.accelerated[1].totalPayment,
                totalInterest |-> details.accelerated[1].totalInterest,
                payoffMonths |-> details.accelerated[1].payoffMonths,
                interestSaved |-> details.accelerated[1].interestSaved,
                monthsSaved |-> details.accelerated[1].monthsSaved]>>
        ELSE <<>>]

\* lines 241-261; accelerated is <<>> (undefined) or <<the summary>>
SummarizeLoan(details) ==
    [principal |-> details.principal,
     downPaymentRatio |-> details.downPaymentRatio,
     base |-> [monthlyPayment |-> details.base.monthlyPayment,
               totalPayment |-> details.base.totalPayment,
               totalInterest |-> details.base.totalInterest,
               payoffMonths |-> details.base.payoffMonths],
     accelerated |->
        IF details.accelerated # <<>>
        THEN <<[monthlyPayment |-> details.accelerated[1].monthlyPayment,
                monthlyPaymentWithExtra |->
                    details.accelerated[1].monthlyPaymentWithExtra,
                totalPayment |-> details.accelerated[1].totalPayment,
                totalInterest |-> details.accelerated[1].totalInterest,
                payoffMonths |-> details.accelerated[1].payoffMonths,
                interestSaved |-> details.accelerated[1].interestSaved,
                monthsSaved |-> details.accelerated[1].monthsSaved]>>
        ELSE <<>>]

\* summarizeLoan(c) is called on the LoanComputation c that calculateLoan
\* returned; it reads c and builds a new object.
CallSummarizeLoan ==
    /\ call = "calculateLoan"
    /\ pc = "done"
    /\ summary = <<>>
    /\ summary' = <<SummarizeLoan(result[1])>>
    /\ UNCHANGED <<call, inputs, args, pc, trace, frames, ret, result>>
    /\ UNCHANGED <<plannerVars, hook>>

(***************************************************************************)
(* monthsToYearsMonths (lines 263-276)                                     *)
(***************************************************************************)
\* MonthsToYearsMonths cutting the fraction of months off (Math.floor in the
\* place of Math.round).
MonthsToYearsMonthsFloor(months) ==
    IF ~IsFinite(months) THEN [years |-> Zero, months |-> Zero]
    ELSE LET wholeMonths == MathMax(Whole(Floor(months)), Zero)
         IN  [years |-> Whole(Floor(Div(wholeMonths, Whole(12)))),
              months |-> Whole(wholeMonths[1] % 12)]

\* lines 263-276; wholeMonths is a whole number >= 0, of which % takes the
\* remainder
MonthsToYearsMonths(months) ==
    IF ~IsFinite(months) THEN [years |-> Zero, months |-> Zero]
    ELSE LET wholeMonths == MathMax(MathRound(months), Zero)
         IN  [years |-> Whole(Floor(Div(wholeMonths, Whole(12)))),
              months |-> Whole(wholeMonths[1] % 12)]

\* monthsToYearsMonths(months) is called and returns.
CallMonthsToYearsMonths ==
    /\ pc = "ready"
    /\ call = "monthsToYearsMonths"
    /\ ret' = <<MonthsToYearsMonths(args[1])>>
    /\ pc' = "done"
    /\ UNCHANGED <<call, inputs, args, trace, frames, result, summary>>
    /\ UNCHANGED <<plannerVars, hook>>

(***************************************************************************)
(* usePersistentState (src/src/hooks/usePersistentState.ts).  One use of   *)
(* the hook is a record                                                    *)
(*   state      - the state the hook returns                               *)
(*   hydrated   - its hydrated flag                                        *)
(*   lastSynced - TRUE iff lastSyncedValueRef.current === state (the same  *)
(*                object, not an equal one)                                *)
(*   stored     - <<>> or <<v>>: the item of localStorage under its key,   *)
(*                v being what JSON.parse gives for it                     *)
(* localStorage is one that works: getItem, setItem and removeItem do not  *)
(* throw.                                                                  *)
(***************************************************************************)
\* setState(v) with a new object v (React keeps the state, and renders
\* nothing, when it is handed the object it has).
HookSetState(h, v) == [h EXCEPT !.state = v, !.lastSynced = FALSE]

\* HookWriteEffect writing whatever lastSyncedValueRef holds.
HookWriteEffectAlways(h) ==
    IF ~h.hydrated THEN h
    ELSE [h EXCEPT !.stored = <<h.state>>, !.lastSynced = TRUE]

\* lines 97-108: the write effect
HookWriteEffect(h) ==
    IF ~h.hydrated THEN h
    ELSE IF h.lastSynced THEN h
    ELSE [h EXCEPT !.stored = <<h.state>>, !.lastSynced = TRUE]

\* HookReset leaving lastSyncedValueRef as it is.
HookResetKeepsRef(h, nextDefault) ==
    [h EXCEPT !.state = nextDefault, !.lastSynced = FALSE, !.stored = <<>>]

\* lines 110-116: reset, nextDefault being what the initializer gives
HookReset(h, nextDefault) ==
    [h EXCEPT !.state = nextDefault, !.lastSynced = TRUE, !.stored = <<>>]

\* lines 118-121: sync
HookSync(h) == [h EXCEPT !.stored = <<h.state>>, !.lastSynced = TRUE]

(***************************************************************************)
(* The planner (src/src/components/LoanPlanner.tsx, lines 1281 on): its    *)
(* inputs, its settings and its history of saved scenarios, each held by   *)
(* usePersistentState.  An action is a handler (or a timer's callback)     *)
(* with the render it causes and the effects of that render: React runs    *)
(* the effects of a render before it handles the next event.               *)
(***************************************************************************)
\* clamp, lines 1057-1063
Clamp(value, min, max) ==
    IF IsNaN(value) THEN min ELSE MathMin(MathMax(value, min), max)

\* createDefaultInputs, lines 1065-1071
CreateDefaultInputs ==
    [purchasePrice |-> Whole(42000000), downPayment |-> Whole(8400000),
     annualInterestRate |-> <<6, 5>>, termYears |-> Whole(35),
     extraMonthlyPayment |-> Zero]

\* createDefaultSettings, lines 1073-1078
CreateDefaultSettings ==
    [locale |-> "ja-JP", currency |-> "JPY", autoSaveHistory |-> TRUE,
     historyLimit |-> Whole(6)]

\* PRESETS, lines 1012-1055: their values
PRESETS ==
    {[purchasePrice |-> Whole(35000000), downPayment |-> Whole(5250000),
      annualInterestRate |-> <<11, 10>>, termYears |-> Whole(35),
      extraMonthlyPayment |-> Zero],
     [purchasePrice |-> Whole(52000000), downPayment |-> Whole(10400000),
      annualInterestRate |-> <<13, 10>>, termYears |-> Whole(30),
      extraMonthlyPayment |-> Whole(10000)],
     [purchasePrice |-> Whole(20000000), downPayment |-> Zero,
      annualInterestRate |-> <<17, 20>>, termYears |-> Whole(15),
      extraMonthlyPayment |-> Whole(20000)]}

\* === on two numbers
StrictEquals(x, y) == ~IsNaN(x) /\ ~IsNaN(y) /\ x = y

\* isSameInputs, lines 1120-1125
IsSameInputs(a, b) ==
    /\ StrictEquals(a.purchasePrice, b.purchasePrice)
    /\ StrictEquals(a.downPayment, b.downPayment)
    /\ StrictEquals(a.annualInterestRate, b.annualInterestRate)
    /\ StrictEquals(a.termYears, b.termYears)
    /\ StrictEquals(a.extraMonthlyPayment, b.extraMonthlyPayment)

\* createHistoryItem, lines 1127-1139.  The id is a fresh one (the number of
\* the item among those saved so far stands for the random UUID); createdAt
\* (the clock) and summary (summarizeLoan(calculateLoan(inputs)), which the
\* inputs determine) are left out.
CreateHistoryItem(id, in) == [id |-> id, inputs |-> in]

\* line 1496: the limit pushHistory applies
PushLimit(s) ==
    Clamp(MathRound(IF IsNaN(s.historyLimit) \/ s.historyLimit = Zero
                    THEN Whole(5) ELSE s.historyLimit),
          Whole(1), Whole(20))

\* PushHistoryUpdate without the comparison with the newest item.
PushHistoryUpdateAlways(prev, nextItem, limit) ==
    LET nextHistory == <<nextItem>> \o prev
    IN  IF Lt(limit, Whole(Len(nextHistory)))
        THEN SubSeq(nextHistory, 1, limit[1])
        ELSE nextHistory

\* lines 1494-1509: the update pushHistory hands to setHistory
PushHistoryUpdate(prev, nextItem, limit) ==
    IF Len(prev) > 0 /\ IsSameInputs(prev[1].inputs, nextItem.inputs) THEN prev
    ELSE LET nextHistory == <<nextItem>> \o prev
         IN  IF Lt(limit, Whole(Len(nextHistory)))
             THEN SubSeq(nextHistory, 1, limit[1])
             ELSE nextHistory

\* lines 1489-1510: pushHistory, as one render made it (hyd, in and s are that
\* render's allHydrated, inputs and settings)
PushHistory(hyd, prev, id, in, s) ==
    IF ~hyd THEN prev
    ELSE PushHistoryUpdate(prev, CreateHistoryItem(id, in), PushLimit(s))

\* UpdateInputValue leaving the down payment alone when the price changes.
UpdateInputValueKeepsDownPayment(prev, field, rawValue) ==
    LET safeValue == IF IsFinite(rawValue) THEN rawValue ELSE Zero
    IN  CASE field = "purchasePrice" ->
                [prev EXCEPT !.purchasePrice =
                                 Clamp(safeValue, Whole(1000000), Whole(200000000))]
          [] field = "downPayment" ->
                [prev EXCEPT !.downPayment =
                                 Clamp(safeValue, Zero, prev.purchasePrice)]
          [] field = "annualInterestRate" ->
                [prev EXCEPT !.annualInterestRate =
                                 Clamp(safeValue, Zero, Whole(20))]
          [] field = "termYears" ->
                [prev EXCEPT !.termYears = Clamp(safeValue, Whole(1), Whole(45))]
          [] field = "extraMonthlyPayment" ->
                [prev EXCEPT !.extraMonthlyPayment =
                                 Clamp(safeValue, Zero, Whole(300000))]
          [] OTHER -> prev

\* lines 1535-1574: the update updateInput hands to setInputs
UpdateInputValue(prev, field, rawValue) ==
    LET safeValue == IF IsFinite(rawValue) THEN rawValue ELSE Zero
    IN  CASE field = "purchasePrice" ->
                LET value == Clamp(safeValue, Whole(1000000), Whole(200000000))
                IN  [prev EXCEPT !.purchasePrice = value,
                                 !.downPayment =
                                     IF Lt(value, prev.downPayment) THEN value
                                     ELSE prev.downPayment]
          [] field = "downPayment" ->
                [prev EXCEPT !.downPayment =
                                 Clamp(safeValue, Zero, prev.purchasePrice)]
          [] field = "annualInterestRate" ->
                [prev EXCEPT !.annualInterestRate =
                                 Clamp(safeValue, Zero, Whole(20))]
          [] field = "termYears" ->
                [prev EXCEPT !.termYears = Clamp(safeValue, Whole(1), Whole(45))]
          [] field = "extraMonthlyPayment" ->
                [prev EXCEPT !.extraMonthlyPayment =
                                 Clamp(safeValue, Zero, Whole(300000))]
          [] OTHER -> prev

\* snapshotTimer.current === null
NoTimer == 0

\* window.setTimeout's id for a new timer: one that no pending timer has and
\* that is not given (the id of the timer set before this one)
NewTimerId(pending, given) ==
    CHOOSE n \in 1..(Cardinality(pending) + 2) :
        n # given /\ \A t \in pending : t.id # n

\* window.clearTimeout(id)
ClearTimeout(pending, id) == {t \in pending : t.id # id}

\* SnapshotCleanup forgetting the timer without clearing it.
SnapshotCleanupForgets(pending, ref) == [timers |-> pending, ref |-> NoTimer]

\* lines 1525-1530: the cleanup of the auto-save effect.  A run of the effect
\* that set no timer returns no cleanup; snapshotTimer.current is null then,
\* and the cleanup would do nothing.
SnapshotCleanup(pending, ref) ==
    IF ref # NoTimer THEN [timers |-> ClearTimeout(pending, ref), ref |-> NoTimer]
    ELSE [timers |-> pending, ref |-> ref]

\* lines 1513-1523: the auto-save effect; the timer is to call the pushHistory
\* of the render the effect belongs to
SnapshotEffectBody(pending, ref, given, hyd, s, in) ==
    IF ~hyd \/ ~s.autoSaveHistory THEN [timers |-> pending, ref |-> ref]
    ELSE LET cleared == IF ref # NoTimer THEN ClearTimeout(pending, ref)
                        ELSE pending
             id == NewTimerId(cleared, given)
         IN  [timers |-> cleared \cup
                           {[id |-> id, allHydrated |-> hyd, inputs |-> in,
                             historyLimit |-> s.historyLimit]},
              ref |-> id]

\* lines 1512-1531: the auto-save effect runs again, one of its dependencies
\* (allHydrated, pushHistory, settings.autoSaveHistory) having changed
SnapshotEffect(pending, ref, hyd, s, in) ==
    LET c == SnapshotCleanup(pending, ref)
    IN  SnapshotEffectBody(c.timers, c.ref, ref, hyd, s, in)

\* STORAGE_KEYS, lines 993-997
STORAGE_KEYS ==
    [inputs |-> "loan-planner:inputs", settings |-> "loan-planner:settings",
     history |-> "loan-planner:history"]

\* lines 1282-1295: the three uses of usePersistentState
Stores == {"inputs", "settings", "history"}

\* their keys
StorageKeys == {STORAGE_KEYS[k] : k \in Stores}

\* the state of each, in a planner with inputs in, settings s and history hist
StoreState(in, s, hist) == [inputs |-> in, settings |-> s, history |-> hist]

\* The render after a handler, and its effects: what they leave in
\* lastSyncedValueRef, localStorage, the pending timers and snapshotTimer.
\*   hyd, in, s, hist: allHydrated, inputs, settings, history as rendered
\*   touched: the stores whose state the handler set to a new object
\*   resets:  the stores the handler reset
\*   pending: the timers pending after the handler
\* Each hook's write effect runs when its state or hydrated changed
\* (usePersistentState.ts line 108); the auto-save effect runs when
\* allHydrated, pushHistory (inputs, computation, settings.historyLimit) or
\* settings.autoSaveHistory changed (lines 1510, 1531).
Rendered(hyd, in, s, hist, touched, resets, pending) ==
    LET handled ==
            [k \in Stores |->
                LET h == [state |-> StoreState(plannerInputs, settings, history)[k],
                          hydrated |-> hydrated,
                          lastSynced |-> lastSynced[k],
                          stored |-> storage[STORAGE_KEYS[k]]]
                IN  IF k \in resets THEN HookReset(h, StoreState(in, s, hist)[k])
                    ELSE IF k \in touched
                         THEN HookSetState(h, StoreState(in, s, hist)[k])
                    ELSE h]
        written ==
            [k \in Stores |->
                LET h == [handled[k] EXCEPT !.hydrated = hyd]
                IN  IF hyd # hydrated \/ k \in touched \cup resets
                    THEN HookWriteEffect(h) ELSE h]
        effect ==
            IF \/ hyd # hydrated
               \/ "inputs" \in touched \cup resets
               \/ s.historyLimit # settings.historyLimit
               \/ s.autoSaveHistory # settings.autoSaveHistory
            THEN SnapshotEffect(pending, snapshotTimer, hyd, s, in)
            ELSE [timers |-> pending, ref |-> snapshotTimer]
    IN  [lastSynced |-> [k \in Stores |-> written[k].lastSynced],
         storage |-> [key \in StorageKeys |->
                         written[CHOOSE k \in Stores : STORAGE_KEYS[k] = key].stored],
         timers |-> effect.timers,
         ref |-> effect.ref]

\* A handler (or a timer's callback) has run and the planner renders with
\* allHydrated hyd, inputs in, settings s and history hist.
Render(hyd, in, s, hist, touched, resets, pending) ==
    \E r \in {Rendered(hyd, in, s, hist, touched, resets, pending)} :
        /\ hydrated' = hyd
        /\ plannerInputs' = in
        /\ settings' = s
        /\ history' = hist
        /\ lastSynced' = r.lastSynced
        /\ storage' = r.storage
        /\ timers' = r.timers
        /\ snapshotTimer' = r.ref

\* The planner's state after its first render with an empty localStorage
\* (lines 1282-1295, usePersistentState.ts lines 83-87).
PlannerMounted ==
    /\ hydrated = FALSE
    /\ plannerInputs = CreateDefaultInputs
    /\ settings = CreateDefaultSettings
    /\ history = <<>>
    /\ snapshotTimer = NoTimer
    /\ timers = {}
    /\ storage = [key \in StorageKeys |-> <<>>]
    /\ lastSynced = [k \in Stores |-> TRUE]
    /\ issued = 0
    /\ lastEvent = "mount"

MaxSaves == 3   \* history items created: at most MaxSaves

\* What the user hands to updateInput: a purchase price that is not a number,
\* an extra payment within the range and one below it.
PlannerEdits ==
    {<<"purchasePrice", NaN>>, <<"extraMonthlyPayment", Whole(10000)>>,
     <<"extraMonthlyPayment", Whole(-1)>>}

\* What the slider of lines 2239-2248 hands to handleHistoryLimitChange.
PlannerLimits == {Whole(1), Whole(2)}

\* The mount effects of the three usePersistentState hooks have run
\* (usePersistentState.ts, lines 89-95): allHydrated (lines 1306-1307).
Hydrate ==
    /\ call = "LoanPlanner"
    /\ ~hydrated
    /\ Render(TRUE, plannerInputs, settings, history, {}, {}, timers)
    /\ lastEvent' = "hydrate"
    /\ UNCHANGED <<issued, hook>>
    /\ UNCHANGED callVars

\* The button of line 1803: pushHistory.
ClickPushHistory ==
    /\ call = "LoanPlanner"
    /\ issued < MaxSaves
    /\ \E next \in {PushHistory(hydrated, history, issued + 1, plannerInputs, settings)} :
           /\ Render(hydrated, plannerInputs, settings, next,
                     IF next = history THEN {} ELSE {"history"}, {}, timers)
           /\ issued' = IF next = history THEN issued ELSE issued + 1
    /\ lastEvent' = "pushHistory"
    /\ UNCHANGED hook
    /\ UNCHANGED callVars

\* The ids of timers
TimerIds == 1..3

\* The timer id of the auto-save effect fires (lines 1521-1523): the
\* pushHistory it was set with.
TimerFires(id) ==
    /\ call = "LoanPlanner"
    /\ issued < MaxSaves
    /\ \E t \in {t \in timers : t.id = id} :
       \E next \in {PushHistory(t.allHydrated, history, issued + 1, t.inputs,
                                [historyLimit |-> t.historyLimit])} :
           /\ Render(hydrated, plannerInputs, settings, next,
                     IF next = history THEN {} ELSE {"history"}, {},
                     timers \ {t})
           /\ issued' = IF next = history THEN issued ELSE issued + 1
    /\ lastEvent' = "snapshotTimeout"
    /\ UNCHANGED hook
    /\ UNCHANGED callVars

\* A pending timer fires.
SnapshotTimeout == \E id \in TimerIds : TimerFires(id)

\* updateInput(field, rawValue), lines 1533-1577, for one of edits.
UpdateInput(edits) ==
    /\ call = "LoanPlanner"
    /\ \E e \in edits :
           Render(hydrated, UpdateInputValue(plannerInputs, e[1], e[2]), settings,
                  history, {"inputs"}, {}, timers)
    /\ lastEvent' = "updateInput"
    /\ UNCHANGED <<issued, hook>>
    /\ UNCHANGED callVars

\* A preset's button, line 1688: setInputs({ ...preset.values }).
ApplyPreset ==
    /\ call = "LoanPlanner"
    /\ \E preset \in PRESETS :
           Render(hydrated, preset, settings, history, {"inputs"}, {}, timers)
    /\ lastEvent' = "applyPreset"
    /\ UNCHANGED <<issued, hook>>
    /\ UNCHANGED callVars

\* handleApplyHistory(item), lines 1585-1590, for an item of the list.
HandleApplyHistory ==
    /\ call = "LoanPlanner"
    /\ \E i \in 1..Len(history) :
           Render(hydrated, history[i].inputs, settings, history, {"inputs"}, {},
                  timers)
    /\ lastEvent' = "handleApplyHistory"
    /\ UNCHANGED <<issued, hook>>
    /\ UNCHANGED callVars

\* line 1594: the update handleDeleteHistoryItem hands to setHistory
DeleteHistoryItem(prev, id) == SelectSeq(prev, LAMBDA item : item.id # id)

\* handleDeleteHistoryItem(id), lines 1592-1597, for an item of the list.
HandleDeleteHistoryItem ==
    /\ call = "LoanPlanner"
    /\ \E i \in 1..Len(history) :
           Render(hydrated, plannerInputs, settings,
                  DeleteHistoryItem(history, history[i].id), {"history"}, {},
                  timers)
    /\ lastEvent' = "handleDeleteHistoryItem"
    /\ UNCHANGED <<issued, hook>>
    /\ UNCHANGED callVars

\* lines 1601-1604: the update handleHistoryLimitChange hands to setSettings
HistoryLimitChange(prev, value) ==
    [prev EXCEPT !.historyLimit = Clamp(MathRound(value), Whole(1), Whole(20))]

\* handleHistoryLimitChange(value), lines 1599-1607.
HandleHistoryLimitChange ==
    /\ call = "LoanPlanner"
    /\ \E value \in PlannerLimits :
           Render(hydrated, plannerInputs, HistoryLimitChange(settings, value),
                  history, {"settings"}, {}, timers)
    /\ lastEvent' = "handleHistoryLimitChange"
    /\ UNCHANGED <<issued, hook>>
    /\ UNCHANGED callVars

\* The checkbox of lines 2217-2227: autoSaveHistory is set.
HandleAutoSaveChange ==
    /\ call = "LoanPlanner"
    /\ \E checked \in BOOLEAN :
           Render(hydrated, plannerInputs,
                  [settings EXCEPT !.autoSaveHistory = checked], history,
                  {"settings"}, {}, timers)
    /\ lastEvent' = "handleAutoSaveChange"
    /\ UNCHANGED <<issued, hook>>
    /\ UNCHANGED callVars

\* handleClearAll, lines 1579-1583: the three resets.
HandleClearAll ==
    /\ call = "LoanPlanner"
    /\ Render(hydrated, CreateDefaultInputs, CreateDefaultSettings, <<>>, {},
              Stores, timers)
    /\ lastEvent' = "handleClearAll"
    /\ UNCHANGED <<issued, hook>>
    /\ UNCHANGED callVars

\* The button of line 2085: historyControls.reset.
ResetHistory ==
    /\ call = "LoanPlanner"
    /\ Render(hydrated, plannerInputs, settings, <<>>, {}, {"history"}, timers)
    /\ lastEvent' = "historyReset"
    /\ UNCHANGED <<issued, hook>>
    /\ UNCHANGED callVars

(***************************************************************************)
(* Inputs                                                                  *)
(***************************************************************************)
MaxPrice == 3          \* purchasePrice, principal: -1 .. MaxPrice
MaxHalfMonths == 6     \* termYears: k/24 for k in 0 .. MaxHalfMonths
MaxRateSteps == 2      \* annualInterestRate: 600 * k for k in -1 .. MaxRateSteps
MaxExtraHalves == 2    \* extraMonthlyPayment: k/2 for k in -1 .. MaxExtraHalves
MaxPayHalves == 4      \* scheduledPayment: k/2 for k in -1 .. MaxPayHalves
MaxMonthHalves == 60   \* months: k/2 for k in -MaxMonthHalves .. MaxMonthHalves

LoanInputs(pp, dp, air, ty, emp) ==
    [purchasePrice |-> pp, downPayment |-> dp, annualInterestRate |-> air,
     termYears |-> ty, extraMonthlyPayment |-> emp]

GridInputs ==
    {LoanInputs(Whole(pp), Whole(dp), Whole(600 * k), Norm(t, 24), Norm(e, 2)) :
        pp \in -1..MaxPrice, dp \in -1..(MaxPrice + 1), k \in -1..MaxRateSteps,
        t \in 0..MaxHalfMonths, e \in -1..MaxExtraHalves}

\* Inputs at the edges of the loop's condition, all at rate 0:
\*  - an extra payment that leaves a balance of 1/2000000 (below EPSILON,
\*    above 0) after the first of two periods;
\*  - a term of 1000 years (MAX_MONTHS periods) with a large extra payment,
\*    and with one so small that the accelerated plan still needs MAX_MONTHS
\*    periods;
\*  - a term one month shorter (MAX_MONTHS - 1 periods).
EdgeInputs ==
    {LoanInputs(Whole(1), Zero, Zero, <<1, 6>>, <<999999, 2000000>>),
     LoanInputs(Whole(1), Zero, Zero, Norm(MAX_MONTHS, 12), Whole(1)),
     LoanInputs(Whole(1), Zero, Zero, Norm(MAX_MONTHS, 12),
                Norm(1, 2 * MAX_MONTHS * MAX_MONTHS)),
     LoanInputs(Whole(1), Zero, Zero, Norm(MAX_MONTHS - 1, 12), Zero)}

AmortizeArgs(p, r, sp, ep) ==
    [principal |-> p, monthlyRate |-> r, scheduledPayment |-> sp, extraPayment |-> ep]

GridArgs ==
    {AmortizeArgs(Whole(p), Norm(r, 2), Norm(sp, 2), Norm(ep, 2)) :
        p \in -1..MaxPrice, r \in -1..MaxRateSteps, sp \in -1..MaxPayHalves,
        ep \in -1..MaxExtraHalves}

\* Arguments at the edges of the loop's condition:
\*  - a principal that one payment of 1 brings to 1/2000000;
\*  - a payment of 1/MAX_MONTHS on a principal of 2 (half of it is left after
\*    MAX_MONTHS payments).
EdgeArgs ==
    {AmortizeArgs(<<2000001, 2000000>>, Zero, Whole(1), Zero),
     AmortizeArgs(Whole(2), Zero, Norm(1, MAX_MONTHS), Zero)}

\* The arguments of monthsToYearsMonths: halves of a month on both sides of
\* zero, a payoff at the ceiling, the infinities and NaN.
MonthsArgs ==
    {Norm(k, 2) : k \in -MaxMonthHalves..MaxMonthHalves}
        \cup {Whole(MAX_MONTHS - 1), Infinity, NegInfinity, NaN}

Init ==
    /\ \/ /\ call = "calculateLoan"
          /\ inputs \in {<<in>> : in \in GridInputs \cup EdgeInputs}
          /\ args = <<>>
       \/ /\ call = "amortize"
          /\ inputs = <<>>
          /\ args \in {<<a>> : a \in GridArgs \cup EdgeArgs}
       \/ /\ call = "monthsToYearsMonths"
          /\ inputs = <<>>
          /\ args \in {<<m>> : m \in MonthsArgs}
    /\ pc = "ready"
    /\ trace = <<>>
    /\ frames = <<>>
    /\ ret = <<>>
    /\ result = <<>>
    /\ summary = <<>>
    /\ PlannerMounted
    /\ hook = <<>>

Next ==
    \/ CallCalculateLoan
    \/ CallAmortize
    \/ CallSummarizeLoan
    \/ CallMonthsToYearsMonths

Spec == Init /\ [][Next]_vars

\* calculateLoan on any numbers but NaN: every field is -Infinity, +Infinity
\* or one of a few finite values.
AnyNumberInputs ==
    {LoanInputs(pp, dp, air, ty, emp) :
        pp \in {NegInfinity, Whole(-1), Zero, Whole(2), Infinity},
        dp \in {NegInfinity, Whole(-1), Whole(1), Whole(3), Infinity},
        air \in {NegInfinity, Zero, Whole(1200), Infinity},
        ty \in {NegInfinity, <<1, 12>>, <<1, 6>>, Infinity},
        emp \in {NegInfinity, Zero, Whole(1), Infinity}}

InitAnyNumber ==
    /\ \/ /\ call = "calculateLoan"
          /\ inputs \in {<<in>> : in \in AnyNumberInputs}
          /\ args = <<>>
       \/ /\ call = "amortize"
          /\ inputs = <<>>
          /\ args \in {<<a>> : a \in GridArgs \cup EdgeArgs}
       \/ /\ call = "monthsToYearsMonths"
          /\ inputs = <<>>
          /\ args \in {<<m>> : m \in MonthsArgs}
    /\ pc = "ready"
    /\ trace = <<>>
    /\ frames = <<>>
    /\ ret = <<>>
    /\ result = <<>>
    /\ summary = <<>>
    /\ PlannerMounted
    /\ hook = <<>>

SpecAnyNumber == InitAnyNumber /\ [][Next]_vars

\* The planner, mounted with an empty localStorage.
InitPlanner ==
    /\ call = "LoanPlanner"
    /\ inputs = <<>>
    /\ args = <<>>
    /\ pc = "ready"
    /\ trace = <<>>
    /\ frames = <<>>
    /\ ret = <<>>
    /\ result = <<>>
    /\ summary = <<>>
    /\ PlannerMounted
    /\ hook = <<>>

NextPlanner ==
    \/ Hydrate
    \/ ClickPushHistory
    \/ SnapshotTimeout
    \/ UpdateInput(PlannerEdits)
    \/ HandleApplyHistory
    \/ HandleDeleteHistoryItem
    \/ HandleHistoryLimitChange
    \/ HandleAutoSaveChange
    \/ HandleClearAll
    \/ ResetHistory

SpecPlanner == InitPlanner /\ [][NextPlanner]_vars

\* ENABLED <<TimerFires(id)>>_vars: the step takes the timer out of timers,
\* so it changes vars whenever it can be taken.
TimerCanFire(id) ==
    call = "LoanPlanner" /\ issued < MaxSaves /\ \E t \in timers : t.id = id

\* WF_vars(TimerFires(id)), with its ENABLED written as TimerCanFire(id): a
\* browser lets no pending timer wait for ever.
TimerFairness(id) == []<>(~TimerCanFire(id)) \/ []<><<TimerFires(id)>>_vars

\* The planner in a browser.
SpecPlannerFair == SpecPlanner /\ \A id \in TimerIds : TimerFairness(id)

\* What updateInput may be handed: every field, with raw values that are not
\* finite, below every range, inside the ranges and above them.
RawValues ==
    {NaN, Infinity, NegInfinity, Whole(-1), Zero, Whole(30), Whole(500000),
     Whole(50000000), Whole(300000000)}

InputEdits ==
    {<<field, rawValue>> :
        field \in {"purchasePrice", "downPayment", "annualInterestRate",
                   "termYears", "extraMonthlyPayment"},
        rawValue \in RawValues}

\* Inputs that localStorage may hold when the planner is mounted, with
\* 0 <= downPayment <= purchasePrice: the defaults, a price of 0 and a price
\* below updateInput's range that is paid in full.
StoredInputs ==
    {CreateDefaultInputs,
     [CreateDefaultInputs EXCEPT !.purchasePrice = Zero, !.downPayment = Zero],
     [CreateDefaultInputs EXCEPT !.purchasePrice = Whole(500000),
                                 !.downPayment = Whole(500000)]}

\* The planner, mounted with inputs in localStorage (usePersistentState.ts
\* line 85: the state is what readFromStorage gives, the stored fields over
\* the default's).
InitInputs ==
    /\ call = "LoanPlanner"
    /\ inputs = <<>>
    /\ args = <<>>
    /\ pc = "ready"
    /\ trace = <<>>
    /\ frames = <<>>
    /\ ret = <<>>
    /\ result = <<>>
    /\ summary = <<>>
    /\ hydrated = FALSE
    /\ plannerInputs \in StoredInputs
    /\ settings = CreateDefaultSettings
    /\ history = <<>>
    /\ snapshotTimer = NoTimer
    /\ timers = {}
    /\ storage = [key \in StorageKeys |->
                     IF key = STORAGE_KEYS.inputs THEN <<plannerInputs>> ELSE <<>>]
    /\ lastSynced = [k \in Stores |-> TRUE]
    /\ issued = 0
    /\ lastEvent = "mount"
    /\ hook = <<>>

\* The planner's inputs under updateInput, the presets and the reset.
NextInputs ==
    \/ Hydrate
    \/ UpdateInput(InputEdits)
    \/ ApplyPreset
    \/ HandleClearAll

SpecInputs == InitInputs /\ [][NextInputs]_vars

(***************************************************************************)
(* One use of usePersistentState on its own: hook is the record of the     *)
(* hook's section above, with                                              *)
(*   phase   - "effects" while a committed render's effects have not run   *)
(*             yet, "idle" otherwise (React runs them before it handles    *)
(*             the next event)                                             *)
(*   op      - the last call made by the component: "mount", "setState",   *)
(*             "reset" or "sync"                                           *)
(*   initial - the item that localStorage held when the hook mounted       *)
(***************************************************************************)
\* What the initializer resolves to (lines 13-15, 83, 111).
HookDefault == "default"

\* The values that the component sets.
HookValues == {"a", "b", "c"}

\* An item of localStorage that JSON.parse rejects.
Unparsable == "{"

\* readFromStorage, lines 17-53, for a state that is not an object: stored is
\* <<>> (no item) or <<item>>.
ReadFromStorage(stored, fallback) ==
    IF stored = <<>> THEN fallback
    ELSE IF stored[1] = Unparsable THEN fallback
    ELSE stored[1]

\* lines 83-87: the hook after the first render.
HookMount(stored) ==
    [state |-> ReadFromStorage(stored, HookDefault),
     hydrated |-> FALSE,
     lastSynced |-> TRUE,
     stored |-> stored,
     phase |-> "effects",
     op |-> "mount",
     initial |-> stored]

\* lines 89-108: the effects of the last render.  Those of the first render
\* see hydrated = FALSE, and setHydrated(true) makes a second render, whose
\* effects run next.
RunEffects ==
    /\ call = "usePersistentState"
    /\ hook.phase = "effects"
    /\ hook' = IF hook.hydrated
               THEN [HookWriteEffect(hook) EXCEPT !.phase = "idle"]
               ELSE [HookWriteEffect(hook) EXCEPT !.hydrated = TRUE]
    /\ UNCHANGED <<callVars, plannerVars>>

\* The component calls setState with a value other than the state.
CallSetState ==
    /\ call = "usePersistentState"
    /\ hook.phase = "idle"
    /\ \E v \in (HookValues \cup {HookDefault}) \ {hook.state} :
           hook' = [HookSetState(hook, v) EXCEPT !.phase = "effects", !.op = "setState"]
    /\ UNCHANGED <<callVars, plannerVars>>

\* The component calls reset().
CallReset ==
    /\ call = "usePersistentState"
    /\ hook.phase = "idle"
    /\ hook' = [HookReset(hook, HookDefault) EXCEPT !.phase = "effects", !.op = "reset"]
    /\ UNCHANGED <<callVars, plannerVars>>

\* The component calls sync().
CallSync ==
    /\ call = "usePersistentState"
    /\ hook.phase = "idle"
    /\ hook' = [HookSync(hook) EXCEPT !.op = "sync"]
    /\ UNCHANGED <<callVars, plannerVars>>

InitHook ==
    /\ call = "usePersistentState"
    /\ inputs = <<>>
    /\ args = <<>>
    /\ pc = "ready"
    /\ trace = <<>>
    /\ frames = <<>>
    /\ ret = <<>>
    /\ result = <<>>
    /\ summary = <<>>
    /\ PlannerMounted
    /\ hook \in {HookMount(stored) :
                    stored \in {<<>>, <<Unparsable>>, <<HookDefault>>}
                                  \cup {<<v>> : v \in HookValues}}

NextHook ==
    \/ RunEffects
    \/ CallSetState
    \/ CallReset
    \/ CallSync

SpecHook == InitHook /\ [][NextHook]_vars

\* The effects of a render do run.
SpecHookFair == SpecHook /\ WF_vars(RunEffects)

(***************************************************************************)
(* Properties                                                              *)
(***************************************************************************)
Last(s) == s[Len(s)]

\* The plans of a LoanComputation: the base plan, then the accelerated one
\* when it is present.
PlansOf(c) == <<c.base>> \o c.accelerated

\* The summary that the i-th run of amortize returned to its caller.
Returned(i) ==
    IF call = "amortize" THEN ret[1].summary
    ELSE IF i = 1 THEN trace[1].baseSummary
    ELSE trace[1].acceleratedSummary[1]

\* The schedules that left the runs of amortize in the values returned.
Schedules ==
    IF call = "amortize" THEN <<ret[1].schedule>>
    ELSE IF call = "calculateLoan"
    THEN [i \in 1..Len(PlansOf(result[1])) |-> PlansOf(result[1])[i].schedule]
    ELSE <<>>

\* The principal that the runs of amortize were given.
RunPrincipal == IF call = "amortize" THEN args[1].principal ELSE trace[1].loc.principal

\* The monthly rate that the runs of amortize were given.
RunRate == IF call = "amortize" THEN args[1].monthlyRate ELSE trace[1].loc.monthlyRate

Tolerance == <<1, 100000>>

C3_AcceleratedIffConverged ==
    result # <<>> =>
        /\ result[1].accelerated # <<>> <=>
              /\ Lt(Zero, inputs[1].extraMonthlyPayment)
              /\ Len(frames) = 2
              /\ IsFinite(Returned(2).payoffMonths)
        /\ result[1].accelerated # <<>> =>
              IsFinite(result[1].accelerated[1].payoffMonths)

\* An extra payment above zero whose accelerated run does not converge, and
\* no accelerated plan in the result.
C3_Witness ==
    /\ result # <<>>
    /\ Lt(Zero, inputs[1].extraMonthlyPayment)
    /\ Len(frames) = 2
    /\ ~IsFinite(Returned(2).payoffMonths)
    /\ result[1].accelerated = <<>>

\* C4 as stated: when downPayment equals purchasePrice the principal is 0,
\* the base plan has payoffMonths 0 and an empty schedule, and there is no
\* accelerated plan, whatever the extra payment.
C4_Original ==
    (result # <<>> /\ inputs[1].downPayment = inputs[1].purchasePrice) =>
        /\ result[1].principal = Zero
        /\ result[1].base.payoffMonths = Zero
        /\ result[1].base.schedule = <<>>
        /\ result[1].accelerated = <<>>

\* C4 (amended): when downPayment equals purchasePrice the principal is 0 and
\* the base plan has payoffMonths 0 and an empty schedule; there is no
\* accelerated plan when extraMonthlyPayment <= 0, and when it is > 0 an
\* accelerated plan is returned, with payoffMonths 0, zero totals, zero
\* savings and an empty schedule.
C4_FullDownPayment ==
    (result # <<>> /\ inputs[1].downPayment = inputs[1].purchasePrice) =>
        /\ result[1].principal = Zero
        /\ result[1].base.payoffMonths = Zero
        /\ result[1].base.schedule = <<>>
        /\ IF Lt(Zero, inputs[1].extraMonthlyPayment)
           THEN /\ result[1].accelerated # <<>>
                /\ result[1].accelerated[1].payoffMonths = Zero
                /\ result[1].accelerated[1].totalInterest = Zero
                /\ result[1].accelerated[1].totalPayment = Zero
                /\ result[1].accelerated[1].monthsSaved = Zero
                /\ result[1].accelerated[1].interestSaved = Zero
                /\ result[1].accelerated[1].schedule = <<>>
           ELSE result[1].accelerated = <<>>

\* A purchase price above zero paid in full by the down payment, with an
\* extra payment above zero: the accelerated plan is there.
C4_Witness ==
    /\ result # <<>>
    /\ Lt(Zero, inputs[1].purchasePrice)
    /\ inputs[1].downPayment = inputs[1].purchasePrice
    /\ Lt(Zero, inputs[1].extraMonthlyPayment)
    /\ result[1].accelerated # <<>>

\* The case of C5: an extra payment and a rate above zero, and an
\* accelerated plan in the result.
C5_Case ==
    /\ result # <<>>
    /\ Lt(Zero, inputs[1].extraMonthlyPayment)
    /\ Lt(Zero, inputs[1].annualInterestRate)
    /\ result[1].accelerated # <<>>

\* C5 as stated: with an extra payment and a rate above zero, an accelerated
\* plan has payoffMonths strictly below the base plan's and interestSaved
\* strictly above zero.
C5_Original ==
    C5_Case =>
        /\ Lt(result[1].accelerated[1].payoffMonths, result[1].base.payoffMonths)
        /\ Lt(Zero, result[1].accelerated[1].interestSaved)

\* C5 (amended): with an extra payment and a rate above zero, an accelerated
\* plan has payoffMonths at most the base plan's and interestSaved at least
\* zero.
C5_AcceleratedNotSlower ==
    C5_Case =>
        /\ Le(result[1].accelerated[1].payoffMonths, result[1].base.payoffMonths)
        /\ Le(Zero, result[1].accelerated[1].interestSaved)

\* An accelerated plan that is a period shorter than the base plan and
\* saves interest.
C5_Witness ==
    /\ C5_Case
    /\ Lt(result[1].accelerated[1].payoffMonths, result[1].base.payoffMonths)
    /\ Lt(Zero, result[1].accelerated[1].interestSaved)

\* The number of times the run that ended with the locals f entered the
\* loop's body: once per counted period, and once more when it returned
\* from line 118.
Iterations(f) == f.payoffMonths + (IF f.exit = "portion" THEN 1 ELSE 0)

\* C6: every run of amortize leaves its loop after at most MAX_MONTHS
\* iterations, and every call of calculateLoan returns a result.
C6_LoopEndsWithinCeiling ==
    (pc = "done" /\ call \in {"calculateLoan", "amortize"}) =>
        /\ frames # <<>>
        /\ \A i \in 1..Len(frames) :
               /\ frames[i].exit # "fuel"
               /\ Iterations(frames[i]) <= MAX_MONTHS
        /\ call = "calculateLoan" => result # <<>>
        /\ call = "amortize" => ret # <<>>

\* A run that only the ceiling ended: MAX_MONTHS periods counted, and a
\* balance above EPSILON.
C6_Witness ==
    /\ pc = "done"
    /\ \E i \in 1..Len(frames) :
           /\ frames[i].payoffMonths = MAX_MONTHS
           /\ Lt(EPSILON, frames[i].balance)

\* The principal portion of the period that the locals f are about to
\* simulate at the monthly rate r (lines 109-115).
PortionAt(f, r) == PrincipalPortion(f.payment, InterestOf(f.balance, r), r)

\* C7: a call of amortize with principal > 0 returns the non-convergent
\* result (three +Infinity, an empty schedule) when scheduledPayment +
\* max(0, extraPayment) <= 0, and when it reaches a period whose principal
\* portion is <= 0.
C7_NonAmortizingIsNonConvergent ==
    (pc = "done" /\ call = "amortize") =>
        LET a == args[1]
            f == frames[1]
            payment == Add(a.scheduledPayment, MathMax(Zero, a.extraPayment))
        IN  (/\ Lt(Zero, a.principal)
             /\ \/ Le(payment, Zero)
                \/ /\ LoopCond(f.balance, f.payoffMonths)
                   /\ Le(PortionAt(f, a.monthlyRate), Zero))
            => /\ ret[1].summary.payoffMonths = Infinity
               /\ ret[1].summary.totalInterest = Infinity
               /\ ret[1].summary.totalPayment = Infinity
               /\ ret[1].schedule = <<>>

\* A payment above zero that does not cover the first period's interest.
C7_Witness ==
    /\ pc = "done"
    /\ call = "amortize"
    /\ Lt(Zero, args[1].principal)
    /\ Lt(Zero, frames[1].payment)
    /\ Lt(frames[1].payment, Mul(args[1].principal, args[1].monthlyRate))
    /\ ret[1] = NonConvergent

\* C8: a run of amortize that counted MAX_MONTHS periods returns the
\* non-convergent result, and a finite payoffMonths that amortize returns is
\* at most MAX_MONTHS - 1.
C8_CeilingIsNonConvergent ==
    pc = "done" =>
        \A i \in 1..Len(frames) :
            /\ frames[i].payoffMonths >= MAX_MONTHS =>
                   /\ Returned(i) = NonConvergent.summary
                   /\ i <= Len(Schedules) => Schedules[i] = <<>>
            /\ IsFinite(Returned(i).payoffMonths) =>
                   Le(Returned(i).payoffMonths, Whole(MAX_MONTHS - 1))

\* A run whose balance reached zero with the MAX_MONTHS-th payment, and
\* which returned the non-convergent result.
C8_Witness ==
    /\ pc = "done"
    /\ \E i \in 1..Len(frames) :
           /\ frames[i].payoffMonths = MAX_MONTHS
           /\ Le(frames[i].balance, EPSILON)
           /\ Returned(i) = NonConvergent.summary
           /\ i <= Len(Schedules)
           /\ Schedules[i] = <<>>

\* max(round(termYears * 12), 1) of the inputs as given.
ScheduledPeriods ==
    MathMax(MathRound(Mul(inputs[1].termYears, Whole(12))), Whole(1))

C10_Case ==
    /\ result # <<>>
    /\ Le(inputs[1].annualInterestRate, Zero)
    /\ Lt(Zero, result[1].principal)

C11_Clamped ==
    LET l == trace[1].loc
    IN  /\ Le(Zero, l.purchasePrice)
        /\ Le(Zero, l.downPayment)
        /\ Le(l.downPayment, l.purchasePrice)
        /\ Le(<<1, 10>>, l.termYears)
        /\ Le(Zero, l.monthlyRate)
        /\ Le(Zero, l.extraPayment)

\* C11 as stated: for any inputs but NaN calculateLoan returns, having
\* normalised its inputs, and the principal it returns is the clamped
\* purchasePrice minus the clamped downPayment and is >= 0.
C11_Original ==
    (call = "calculateLoan" /\ pc = "done") =>
        /\ result # <<>>
        /\ C11_Clamped
        /\ result[1].principal =
               Sub(trace[1].loc.purchasePrice, trace[1].loc.downPayment)
        /\ Le(Zero, result[1].principal)

\* C11 (amended): for any inputs but NaN calculateLoan returns, having
\* normalised its inputs; the principal it returns is NaN when purchasePrice
\* and downPayment are both +Infinity, and otherwise it is the clamped
\* purchasePrice minus the clamped downPayment and is >= 0.
C11_NormalizesInputs ==
    (call = "calculateLoan" /\ pc = "done") =>
        /\ result # <<>>
        /\ C11_Clamped
        /\ IF inputs[1].purchasePrice = Infinity /\ inputs[1].downPayment = Infinity
           THEN IsNaN(result[1].principal)
           ELSE /\ result[1].principal =
                      Sub(trace[1].loc.purchasePrice, trace[1].loc.downPayment)
                /\ Le(Zero, result[1].principal)

\* A down payment above the purchase price and a term, a rate and an extra
\* payment below zero, all of them normalised; the principal is 0.
C11_Witness ==
    /\ call = "calculateLoan"
    /\ pc = "done"
    /\ Lt(Zero, inputs[1].purchasePrice)
    /\ IsFinite(inputs[1].purchasePrice)
    /\ Lt(inputs[1].purchasePrice, inputs[1].downPayment)
    /\ Lt(inputs[1].termYears, Zero)
    /\ Lt(inputs[1].annualInterestRate, Zero)
    /\ Lt(inputs[1].extraMonthlyPayment, Zero)
    /\ trace[1].loc.downPayment = inputs[1].purchasePrice
    /\ trace[1].loc.termYears = <<1, 10>>
    /\ result[1].principal = Zero

\* C12: an accelerated plan that is returned has monthsSaved =
\* max(base.payoffMonths - payoffMonths, 0), interestSaved =
\* max(base.totalInterest - totalInterest, 0), monthlyPaymentWithExtra =
\* base.monthlyPayment + max(extraMonthlyPayment, 0) and monthlyPayment =
\* base.monthlyPayment; both savings are >= 0.
C12_SavingsAreDifferences ==
    (result # <<>> /\ result[1].accelerated # <<>>) =>
        LET b == result[1].base
            a == result[1].accelerated[1]
        IN  /\ a.monthsSaved = MathMax(Sub(b.payoffMonths, a.payoffMonths), Zero)
            /\ a.interestSaved = MathMax(Sub(b.totalInterest, a.totalInterest), Zero)
            /\ a.monthlyPaymentWithExtra =
                   Add(b.monthlyPayment, MathMax(inputs[1].extraMonthlyPayment, Zero))
            /\ a.monthlyPayment = b.monthlyPayment
            /\ Le(Zero, a.monthsSaved)
            /\ Le(Zero, a.interestSaved)

\* An accelerated plan that saves two periods or more and some interest,
\* at a payment above the base plan's.
C12_Witness ==
    /\ result # <<>>
    /\ result[1].accelerated # <<>>
    /\ Le(Whole(2), result[1].accelerated[1].monthsSaved)
    /\ Lt(Zero, result[1].accelerated[1].interestSaved)
    /\ Lt(result[1].base.monthlyPayment,
          result[1].accelerated[1].monthlyPaymentWithExtra)

\* C13: with extraMonthlyPayment > 0 and a base plan that converged (finite
\* payoffMonths), the accelerated run converged too and the accelerated
\* plan is present.
C13_AcceleratedConvergesWithBase ==
    (/\ result # <<>>
     /\ Lt(Zero, inputs[1].extraMonthlyPayment)
     /\ IsFinite(result[1].base.payoffMonths)) =>
        /\ Len(frames) = 2
        /\ IsFinite(Returned(2).payoffMonths)
        /\ result[1].accelerated # <<>>

\* A loan at a rate above zero whose base plan takes three periods or more,
\* with an extra payment: the accelerated plan is there.
C13_Witness ==
    /\ result # <<>>
    /\ Lt(Zero, inputs[1].extraMonthlyPayment)
    /\ Lt(Zero, inputs[1].annualInterestRate)
    /\ IsFinite(result[1].base.payoffMonths)
    /\ Le(Whole(3), result[1].base.payoffMonths)
    /\ result[1].accelerated # <<>>

\* The LoanSummary s is the LoanComputation c without its schedules.
C14_Projects(c, s) ==
    /\ s.principal = c.principal
    /\ s.downPaymentRatio = c.downPaymentRatio
    /\ DOMAIN s.base = {"monthlyPayment", "totalPayment", "totalInterest",
                        "payoffMonths"}
    /\ \A k \in DOMAIN s.base : s.base[k] = c.base[k]
    /\ s.accelerated # <<>> <=> c.accelerated # <<>>
    /\ s.accelerated # <<>> =>
          /\ DOMAIN s.accelerated[1] =
                 {"monthlyPayment", "monthlyPaymentWithExtra", "totalPayment",
                  "totalInterest", "payoffMonths", "interestSaved", "monthsSaved"}
          /\ \A k \in DOMAIN s.accelerated[1] :
                 s.accelerated[1][k] = c.accelerated[1][k]

\* C14: summarizeLoan(c) has c's principal, downPaymentRatio and the four
\* scalar fields of c.base, an accelerated part exactly when c has one, with
\* its seven scalar fields, and no schedule in either; the call leaves c as
\* it was.
C14_SummaryIsProjection ==
    /\ [](summary # <<>> => C14_Projects(result[1], summary[1]))
    /\ [][summary' # summary => result' = result]_vars

\* The summary of a computation that has an accelerated plan and schedules
\* in both plans.
C14_Witness ==
    /\ summary # <<>>
    /\ summary[1].accelerated # <<>>
    /\ Len(result[1].base.schedule) >= 2
    /\ result[1].accelerated[1].schedule # <<>>

\* C15: for a finite m, monthsToYearsMonths(m) returns whole years >= 0 and
\* months in 0..11 with years * 12 + months = max(round(m), 0), round taking
\* a half up; for m not finite it returns {years: 0, months: 0}.
C15_YearsMonthsSplit ==
    (call = "monthsToYearsMonths" /\ pc = "done") =>
        LET m == args[1]
            years == ret[1].years
            months == ret[1].months
            total == Add(Mul(years, Whole(12)), months)
        IN  IF IsFinite(m)
            THEN /\ years[2] = 1 /\ months[2] = 1
                 /\ Le(Zero, years)
                 /\ Le(Zero, months) /\ Le(months, Whole(11))
                 /\ \/ total = Zero /\ Lt(m, <<1, 2>>)
                    \/ /\ Le(Whole(1), total)
                       /\ Le(Sub(total, <<1, 2>>), m)
                       /\ Lt(m, Add(total, <<1, 2>>))
                 /\ Lt(m, Zero) => (years = Zero /\ months = Zero)
            ELSE years = Zero /\ months = Zero

\* Twelve months and a half are a year and a month.
C15_Witness ==
    /\ call = "monthsToYearsMonths"
    /\ pc = "done"
    /\ args[1] = <<25, 2>>
    /\ ret[1] = [years |-> Whole(1), months |-> Whole(1)]

\* The three fields of the summary s are all finite or all +Infinity.
C16_Uniform(s) ==
    \/ /\ IsFinite(s.payoffMonths)
       /\ IsFinite(s.totalInterest)
       /\ IsFinite(s.totalPayment)
    \/ /\ s.payoffMonths = Infinity
       /\ s.totalInterest = Infinity
       /\ s.totalPayment = Infinity

C17_RatioOfClampedValues ==
    result # <<>> =>
        LET price == MathMax(Zero, inputs[1].purchasePrice)
            down == MathMin(MathMax(Zero, inputs[1].downPayment), price)
        IN  /\ result[1].downPaymentRatio =
                   (IF Lt(Zero, inputs[1].purchasePrice) THEN Div(down, price)
                    ELSE Zero)
            /\ Le(Zero, result[1].downPaymentRatio)
            /\ Le(result[1].downPaymentRatio, Whole(1))

\* A down payment of a third of the purchase price.
C17_Witness ==
    /\ result # <<>>
    /\ inputs[1].purchasePrice = Whole(3)
    /\ inputs[1].downPayment = Whole(1)
    /\ result[1].downPaymentRatio = <<1, 3>>

\* C18: for principal <= 0 amortize returns payoffMonths 0, totalInterest 0,
\* totalPayment 0 and an empty schedule, whatever the rate and the
\* payments; calculateLoan then has a monthlyPayment of 0 and that base plan.
C18_NoPrincipalIsZeroEffort ==
    /\ (call = "amortize" /\ pc = "done" /\ Le(args[1].principal, Zero)) =>
           /\ ret[1].summary = [payoffMonths |-> Zero, totalInterest |-> Zero,
                                totalPayment |-> Zero]
           /\ ret[1].schedule = <<>>
    /\ (result # <<>> /\ Le(result[1].principal, Zero)) =>
           /\ result[1].base.monthlyPayment = Zero
           /\ result[1].base.payoffMonths = Zero
           /\ result[1].base.totalInterest = Zero
           /\ result[1].base.totalPayment = Zero
           /\ result[1].base.schedule = <<>>

\* amortize on a principal of zero with no payment at all: the result is the
\* zero one, not the non-convergent one.
C18_Witness ==
    /\ call = "amortize"
    /\ pc = "done"
    /\ args[1].principal = Zero
    /\ Lt(Zero, args[1].monthlyRate)
    /\ Le(Add(args[1].scheduledPayment, MathMax(Zero, args[1].extraPayment)), Zero)
    /\ ret[1].summary.payoffMonths = Zero
    /\ ret[1].schedule = <<>>

\* The payment of the run that returned the i-th schedule: for calculateLoan
\* the base plan's monthlyPayment and the accelerated plan's
\* monthlyPaymentWithExtra, for a call of amortize scheduledPayment +
\* max(0, extraPayment).
C19_Payment(i) ==
    IF call = "amortize"
    THEN Add(args[1].scheduledPayment, MathMax(Zero, args[1].extraPayment))
    ELSE IF i = 1 THEN result[1].base.monthlyPayment
    ELSE result[1].accelerated[1].monthlyPaymentWithExtra

C20_Original ==
    call = "LoanPlanner" => Le(Whole(Len(history)), settings.historyLimit)

\* Everything is deleted: the three states are the defaults and localStorage
\* has none of the three keys.
AllCleared ==
    /\ plannerInputs = CreateDefaultInputs
    /\ settings = CreateDefaultSettings
    /\ history = <<>>
    /\ \A key \in StorageKeys : storage[key] = <<>>

\* C21: handleClearAll leaves inputs, settings and history at their defaults
\* and removes the three keys of localStorage; and when the next thing to
\* happen is no action of the user but the timer of the auto-save effect, the
\* keys are still removed and the history is still empty after it.
C21_Original ==
    [][/\ lastEvent' = "handleClearAll" => AllCleared'
       /\ (lastEvent = "handleClearAll" /\ lastEvent' = "snapshotTimeout")
              => AllCleared']_vars

\* 0 <= downPayment <= purchasePrice
C22_InRange(in) == Le(Zero, in.downPayment) /\ Le(in.downPayment, in.purchasePrice)

\* C22: from inputs with 0 <= downPayment <= purchasePrice, after any calls of
\* updateInput (any field, any raw value), presets and resets, the planner's
\* inputs, and the inputs in localStorage, have 0 <= downPayment <=
\* purchasePrice.
C22_DownPaymentWithinPrice ==
    call = "LoanPlanner" =>
        /\ C22_InRange(plannerInputs)
        /\ \A i \in 1..Len(storage[STORAGE_KEYS.inputs]) :
               C22_InRange(storage[STORAGE_KEYS.inputs][i])

\* updateInput has lowered the price below the down payment of 8400000, and
\* the down payment with it; the new inputs are stored.
C22_Witness ==
    /\ lastEvent = "updateInput"
    /\ plannerInputs.purchasePrice = Whole(1000000)
    /\ plannerInputs.downPayment = Whole(1000000)
    /\ storage[STORAGE_KEYS.inputs] = <<plannerInputs>>

\* history[0].inputs are the current inputs
C23_Snapshotted == Len(history) > 0 /\ history[1].inputs = plannerInputs

\* What holds of the timers in every state: at most one is pending, it is
\* the one snapshotTimer.current holds, it was set by a hydrated planner that
\* saves automatically, and it is to save the current inputs under the
\* current limit.
C23_Timers ==
    /\ Cardinality(timers) <= 1
    /\ ~settings.autoSaveHistory => timers = {}
    /\ \A t \in timers :
           /\ t.id = snapshotTimer
           /\ hydrated /\ t.allHydrated
           /\ t.inputs = plannerInputs
           /\ t.historyLimit = settings.historyLimit

\* What holds of every step: a change of the inputs with auto-save on (in a
\* hydrated planner) replaces the pending timer by a new one, and a timer that
\* fires leaves the current inputs in history[0].
C23_Steps ==
    /\ (plannerInputs' # plannerInputs /\ hydrated' /\ settings'.autoSaveHistory)
           => /\ Cardinality(timers') = 1
              /\ timers' \cap timers = {}
    /\ lastEvent' = "snapshotTimeout"
           => /\ plannerInputs' = plannerInputs
              /\ C23_Snapshotted'

\* C23: with auto-save on and the stores hydrated, each change of the inputs
\* cancels the pending timer and starts a new one, so that at most one timer
\* is pending and what a timer saves are the current inputs, never earlier
\* ones; with auto-save off no timer is pending; and a pending timer does not
\* stay pending: it is cancelled (by the next change), or it fires and leaves
\* the current inputs in history[0] (as long as fewer than MaxSaves items
\* have been created).
C23_SnapshotAfterQuiet ==
    /\ [](call = "LoanPlanner" => C23_Timers)
    /\ [][C23_Steps]_vars
    /\ \A id \in TimerIds :
           (\E t \in timers : t.id = id)
               ~> \/ ~(\E t \in timers : t.id = id)
                  \/ issued = MaxSaves

\* The timer set after a change of the inputs has fired and has saved them, in
\* front of an earlier snapshot.
C23_Witness ==
    /\ lastEvent = "snapshotTimeout"
    /\ Len(history) = 2
    /\ C23_Snapshotted
    /\ plannerInputs # CreateDefaultInputs
    /\ timers = {}


\* The runs of amortize that returned a finite payoffMonths.
ConvergentRuns ==
    IF pc = "done" /\ call \in {"calculateLoan", "amortize"}
    THEN {i \in 1..Len(frames) : IsFinite(Returned(i).payoffMonths)}
    ELSE {}

SideBySidePeriods == 4

\* The scheduled and the extra payment that the runs of amortize were given.
RunScheduled ==
    IF call = "amortize" THEN args[1].scheduledPayment ELSE trace[1].loc.scheduledPayment

RunExtra ==
    IF call = "amortize" THEN args[1].extraPayment ELSE trace[1].loc.extraPayment

\* amortize's locals after at most k periods of the loop at the payment
\* scheduledPayment + max(0, extraPayment).
AfterPeriods(k, extraPayment) ==
    RunLoop(RunPrincipal, RunRate,
            LoopEntry(RunPrincipal, EffectivePayment(RunScheduled, extraPayment)), k)

\* C25: with extra > 0, after every number of periods that the base and the
\* accelerated simulation both made on the same principal, rate and
\* scheduled payment, the accelerated balance is at most the base balance;
\* when calculateLoan's two runs both converge, accelerated.payoffMonths <=
\* base.payoffMonths and accelerated.totalInterest <= base.totalInterest,
\* and monthsSaved and interestSaved are the plain differences.
C25_AcceleratedBalanceNotAbove ==
    (pc = "done" /\ call \in {"calculateLoan", "amortize"} /\ Lt(Zero, RunExtra)) =>
        /\ \A k \in 1..SideBySidePeriods :
               LET b == AfterPeriods(k, Zero)
                   a == AfterPeriods(k, RunExtra)
               IN  (b.payoffMonths = k /\ a.payoffMonths = k) =>
                       Le(a.balance, b.balance)
        /\ (call = "calculateLoan" /\ result[1].accelerated # <<>>) =>
               LET b == result[1].base
                   a == result[1].accelerated[1]
               IN  /\ \A k \in 1..Len(a.schedule) :
                          k <= Len(b.schedule) =>
                              Le(a.schedule[k].balance, b.schedule[k].balance)
                   /\ IsFinite(b.payoffMonths) =>
                          /\ Le(a.payoffMonths, b.payoffMonths)
                          /\ Le(a.totalInterest, b.totalInterest)
                          /\ a.monthsSaved = Sub(b.payoffMonths, a.payoffMonths)
                          /\ a.interestSaved = Sub(b.totalInterest, a.totalInterest)

\* A loan at a rate above zero whose two plans converge, the accelerated one
\* in two periods or more, with a lower balance after the first period,
\* fewer periods and less interest than the base plan.
C25_Witness ==
    /\ pc = "done"
    /\ call = "calculateLoan"
    /\ Lt(Zero, RunRate)
    /\ result[1].accelerated # <<>>
    /\ IsFinite(result[1].base.payoffMonths)
    /\ LET b == result[1].base
           a == result[1].accelerated[1]
       IN  /\ Len(a.schedule) >= 2
           /\ Lt(a.schedule[1].balance, b.schedule[1].balance)
           /\ Lt(a.payoffMonths, b.payoffMonths)
           /\ Lt(a.totalInterest, b.totalInterest)


\* C26 as stated: whenever calculateLoan returns an accelerated plan, every
\* numeric field of it is finite (monthlyPayment, monthlyPaymentWithExtra,
\* totalPayment, totalInterest, payoffMonths, interestSaved, monthsSaved and
\* the fields of its schedule points), also when the base plan is
\* non-convergent.
C26_Original ==
    (result # <<>> /\ result[1].accelerated # <<>>) =>
        LET a == result[1].accelerated[1]
        IN  /\ IsFinite(a.monthlyPayment)
            /\ IsFinite(a.monthlyPaymentWithExtra)
            /\ IsFinite(a.totalPayment)
            /\ IsFinite(a.totalInterest)
            /\ IsFinite(a.payoffMonths)
            /\ IsFinite(a.interestSaved)
            /\ IsFinite(a.monthsSaved)
            /\ \A k \in 1..Len(a.schedule) :
                   /\ IsFinite(a.schedule[k].payment)
                   /\ IsFinite(a.schedule[k].principalPayment)
                   /\ IsFinite(a.schedule[k].interestPayment)
                   /\ IsFinite(a.schedule[k].balance)
                   /\ IsFinite(a.schedule[k].totalPrincipalPaid)
                   /\ IsFinite(a.schedule[k].totalInterestPaid)

\* An accelerated plan that converged beside a base plan that reached the
\* ceiling: its monthsSaved and interestSaved are +Infinity.
C26_Witness ==
    /\ result # <<>>
    /\ result[1].accelerated # <<>>
    /\ ~IsFinite(result[1].base.payoffMonths)
    /\ IsFinite(result[1].accelerated[1].payoffMonths)
    /\ result[1].accelerated[1].monthsSaved = Infinity
    /\ result[1].accelerated[1].interestSaved = Infinity


C27_LongSchedule ==
    /\ pc = "done"
    /\ call = "calculateLoan"
    /\ Len(Schedules[1]) = MAX_MONTHS - 1
    /\ Last(Schedules[1]).yearIndex = 1000

C28_ResetRemovesKey ==
    (call = "usePersistentState" /\ hook.op = "reset") =>
        /\ hook.state = HookDefault
        /\ hook.stored = <<>>

\* reset() was called on a hook that had stored another value than the
\* default, and the effects of the render it caused have run.
C28_Witness ==
    /\ call = "usePersistentState"
    /\ hook.op = "reset"
    /\ hook.phase = "idle"
    /\ hook.initial = <<"a">>
    /\ hook.hydrated

C29_Pushed(next, prev, in, limit) ==
    /\ Len(next) = IF Len(prev) + 1 > limit THEN limit ELSE Len(prev) + 1
    /\ next[1].inputs = in
    /\ \A item \in {prev[k] : k \in 1..Len(prev)} : item.id # next[1].id
    /\ \A k \in 2..Len(next) : next[k] = prev[k - 1]
    /\ Len(next) >= 2 => next[2].inputs # next[1].inputs

\* C29: a step of pushHistory (from the button or from the auto-save timer)
\* leaves the history as it is when not all stores are hydrated or when the
\* inputs equal those of history[0]; otherwise the new history is a new item
\* with the inputs, followed by the previous items in their order, cut at
\* the limit from the oldest end, so that the new item and the one behind it
\* have different inputs.
C29_PushHistoryFrame ==
    [][lastEvent' \in {"pushHistory", "snapshotTimeout"} =>
          IF ~hydrated \/ (history # <<>> /\ history[1].inputs = plannerInputs)
          THEN history' = history
          ELSE C29_Pushed(history', history, plannerInputs, PushLimit(settings)[1])]_vars

\* A push with two items saved and a limit of two: the third item is in
\* front, the second behind it and the first is gone.
C29_Witness ==
    /\ lastEvent \in {"pushHistory", "snapshotTimeout"}
    /\ PushLimit(settings) = Whole(2)
    /\ Len(history) = 2
    /\ history[1].id = 3
    /\ history[2].id = 2
    /\ history[1].inputs = plannerInputs

====
